---- MODULE Spec2Model ----
(***************************************************************************)
(* farm_analysis_analytics.extended.py: load one JSON table, then for each *)
(* numeric column pick and run a hypothesis test against the grouping      *)
(* column, optionally a post-hoc test, and write one text report.          *)
(*                                                                         *)
(* Values.  A cell is a string: "NA" (missing), "1" or "2" (numbers) or    *)
(* "txt" (text).  A p-value is a record [tag, v]: tag "none" is Python's   *)
(* None, "nan" is the float NaN, "num" is a float whose value is v         *)
(* hundredths.  The outcome of a library call is a p-value or "raise",     *)
(* chosen by the environment when the call is made.                        *)
(***************************************************************************)
EXTENDS Integers, Sequences, FiniteSets

VARIABLES
    pc,            \* position of the script
    data_files,    \* lines 46-49: the directory listing without SKIP_FILES
    df,            \* line 62: the DataFrame
    ci,            \* position of `for col in numeric_cols` (line 173)
    gi,            \* position of `for gcol in GROUP_COLS` (line 189)
    normal_p,      \* line 184
    variance_p,    \* line 190
    test,          \* line 191
    p,             \* lines 193-200
    report_lines,  \* line 75
    calls,         \* the statistical library calls made so far, in order
    out_dir,       \* whether /data/outputs exists
    out_file,      \* the output file: whether it exists, and its content
    writes         \* how many times the output file was opened for writing

vars == <<pc, data_files, df, ci, gi, normal_p, variance_p, test, p,
          report_lines, calls, out_dir, out_file, writes>>

----------------------------------------------------------------------------
(* Program constants *)

MIN_SAMPLE == 4

\* MAX_NA_RATIO = 0.5 as the fraction MAX_NA_RATIO_NUM / MAX_NA_RATIO_DEN
MAX_NA_RATIO_NUM == 1
MAX_NA_RATIO_DEN == 2

\* the significance threshold 0.05, in hundredths
ALPHA == 5

\* the fallback p-value 1.0, in hundredths
P_ONE == 100

SKIP_FILES == {"algoCustomData.json"}

GROUP_COLS == <<"Kind of farm">>

SKIP_COLS == {"Farm ID", "Plot", "Time of sampling", "Soil type"}

----------------------------------------------------------------------------
(* Bounds of the model *)

\* rows of one group in a single-column dataset
MaxGroupRows == 4

\* rows whose grouping value is missing in a single-column dataset
MaxNoGroup == 1

\* columns of a dataset drawn from the catalogue
MaxCols == 2

----------------------------------------------------------------------------
(* p-values and library outcomes *)

None == [tag |-> "none", v |-> 0]

NaN == [tag |-> "nan", v |-> 0]

Num(x) == [tag |-> "num", v |-> x]

Raise == [tag |-> "raise", v |-> 0]

\* Python's `a is None`
IsNone(a) == a.tag = "none"

\* float comparison a < x and a > x: False when a is NaN
Lt(a, x) == a.tag = "num" /\ a.v < x

Gt(a, x) == a.tag = "num" /\ a.v > x

\* the probabilities a statistical routine returns: below, at and above the
\* significance threshold
PGrid == {Num(ALPHA - 1), Num(ALPHA), Num(P_ONE)}

\* what a diagnostic (shapiro, levene) can do: return a probability, return
\* NaN (levene on groups without spread divides zero by zero), or raise
DiagnosticOutcomes == PGrid \cup {NaN, Raise}

\* what a main test (anova_lm, kruskal) can do: return a probability or raise
MainOutcomes == PGrid \cup {Raise}

\* what a post-hoc routine can do: return its table or raise
PosthocOutcomes == {Num(P_ONE), Raise}

----------------------------------------------------------------------------
(* Datasets *)

NA == "NA"

Range(s) == {s[i] : i \in DOMAIN s}

\* the rows of the grouping column: a rows "A", b rows "B", u rows missing
GroupCells(a, b, u) ==
    [i \in 1..(a + b + u) |->
        IF i <= a THEN "A" ELSE IF i <= a + b THEN "B" ELSE NA]

\* the j-th value of a group under a value pattern
PatternValue(pat, j) ==
    IF pat = "const" THEN "1"
    ELSE IF j % 2 = 1 THEN "1" ELSE "2"

\* a numeric column over the rows of GroupCells(a, b, u): the first pa, pb, pu
\* rows of each part hold a value, the others are missing; rows without a
\* group hold the value "2"
NumCells(a, b, u, pa, pb, pu, pat) ==
    [i \in 1..(a + b + u) |->
        IF i <= a THEN (IF i <= pa THEN PatternValue(pat, i) ELSE NA)
        ELSE IF i <= a + b
             THEN (IF i - a <= pb THEN PatternValue(pat, i - a) ELSE NA)
             ELSE (IF i - a - b <= pu THEN "2" ELSE NA)]

Column(name, cells) == [name |-> name, cells |-> cells]

Dataset(kind, cols) == [kind |-> kind, cols |-> cols]

\* every table of one measurement column within the row bounds
SingleColumnDatasets ==
    { Dataset(GroupCells(a, b, u),
              <<Column("Yield", NumCells(a, b, u, pa, pb, pu, pat))>>) :
        <<a, b, u, pa, pb, pu, pat>> \in
          { t \in (0..MaxGroupRows) \X (0..MaxGroupRows) \X (0..MaxNoGroup)
                  \X (0..MaxGroupRows) \X (0..MaxGroupRows) \X (0..MaxNoGroup)
                  \X {"const", "mixed"} :
              /\ t[1] + t[2] + t[3] >= 1
              /\ t[4] <= t[1] /\ t[5] <= t[2] /\ t[6] <= t[3] } }

\* the rows of every catalogue table
CatKind == GroupCells(MIN_SAMPLE, MIN_SAMPLE, 1)

CatNum(pa, pb, pu, pat) ==
    NumCells(MIN_SAMPLE, MIN_SAMPLE, 1, pa, pb, pu, pat)

CatText == [i \in 1..(2 * MIN_SAMPLE + 1) |-> "txt"]

\* a catalogue of columns over those rows
Catalogue ==
    { Column("Farm ID",   CatNum(MIN_SAMPLE, MIN_SAMPLE, 1, "mixed")),
      Column("Soil type", CatText),
      Column("Notes",     CatText),
      Column("Yield",     CatNum(MIN_SAMPLE, MIN_SAMPLE, 1, "mixed")),
      Column("pH",        CatNum(MIN_SAMPLE, 1, 0, "mixed")),
      Column("Rainfall",  CatNum(2, 0, 0, "mixed")) }

\* sequences of at most n distinct catalogue columns
RECURSIVE ColumnSeqs(_)
ColumnSeqs(n) ==
    IF n = 0 THEN {<<>>}
    ELSE LET shorter == ColumnSeqs(n - 1)
         IN  shorter \cup
             { Append(s, c) : <<s, c>> \in
                 { t \in shorter \X Catalogue :
                     /\ Len(t[1]) = n - 1
                     /\ \A i \in DOMAIN t[1] : t[1][i].name # t[2].name } }

CatalogueDatasets == { Dataset(CatKind, cols) : cols \in ColumnSeqs(MaxCols) }

Datasets == SingleColumnDatasets \cup CatalogueDatasets

EmptyFrame == Dataset(<<>>, <<>>)

----------------------------------------------------------------------------
(* DataFrame operations *)

\* the dtype pandas infers for a column of JSON values
IsNumeric(cells) ==
    /\ \E i \in DOMAIN cells : cells[i] \in {"1", "2"}
    /\ \A i \in DOMAIN cells : cells[i] \in {"1", "2", NA}

\* mutant: every column, whatever its dtype
numeric_cols_All(d) == d.cols

\* df.select_dtypes(include=[np.number]).columns
numeric_cols(d) ==
    SelectSeq(d.cols, LAMBDA c : IsNumeric(c.cells))

\* len(df[col].dropna())
CountPresent(cells) == Cardinality({i \in DOMAIN cells : cells[i] # NA})

\* df[col].isna().sum(); na_ratio is CountMissing / Len
CountMissing(cells) == Cardinality({i \in DOMAIN cells : cells[i] = NA})

\* the groups of df.groupby(group_col): the non-missing keys
GroupKeys(d) == Range(d.kind) \ {NA}

\* g[col].dropna() of group k: the rows of the group holding a value
GroupRows(d, cells, k) ==
    {i \in DOMAIN cells : d.kind[i] = k /\ cells[i] # NA}

\* test_variances: [g[col].dropna().values for name, g in df.groupby(group_col)
\*                  if len(g[col].dropna()) >= MIN_SAMPLE]
VarianceGroups(d, cells) ==
    {k \in GroupKeys(d) : Cardinality(GroupRows(d, cells, k)) >= MIN_SAMPLE}

\* mutant: `> MIN_SAMPLE`
KruskalGroups_Gt(d, cells) ==
    {k \in GroupKeys(d) : Cardinality(GroupRows(d, cells, k)) > MIN_SAMPLE}

\* run_kruskal: [g[col].dropna().values for _, g in df.groupby(group)
\*               if len(g[col].dropna()) >= MIN_SAMPLE]
KruskalGroups(d, cells) ==
    {k \in GroupKeys(d) : Cardinality(GroupRows(d, cells, k)) >= MIN_SAMPLE}

----------------------------------------------------------------------------
(* Report lines *)

\* f"[SKIP] {col}: insufficient data\n"
SkipLine(col) == [kind |-> "skip", col |-> col]

\* f"\n=== {col} ==="
HeaderLine(col) == [kind |-> "header", col |-> col]

\* f"n={n}, NA ratio={na_ratio:.2f}, normality_p={normal_p}"; the ratio is
\* kept as the pair (missing, rows) it is computed from
StatsLine(col, n, missing, rows, np) ==
    [kind |-> "stats", col |-> col, n |-> n, missing |-> missing,
     rows |-> rows, normality_p |-> np]

\* f"{col} by {gcol}: test={test}, variance_p={variance_p}, p={p}"
TestLine(col, gcol, t, vp, pv) ==
    [kind |-> "test", col |-> col, gcol |-> gcol, test |-> t,
     variance_p |-> vp, p |-> pv]

\* "Post-hoc:\n" + str(post)
PosthocLine(post) == [kind |-> "posthoc", post |-> post]

Newline == [kind |-> "newline"]

\* "\n".join(lines): the lines with a separator between neighbours
Join(lines) ==
    [i \in 1..(2 * Len(lines) - 1) |->
        IF i % 2 = 1 THEN lines[(i + 1) \div 2] ELSE Newline]

----------------------------------------------------------------------------
(* The functions of the script.  `out` is what the library call inside    *)
(* does when it is reached.                                                *)

test_normality(series_len, out) ==
    IF series_len < MIN_SAMPLE THEN None
    ELSE IF out = Raise THEN None
    ELSE out

\* None, a p-value, or Raise when levene raises (nothing catches it)
test_variances(d, cells, out) ==
    IF Cardinality(VarianceGroups(d, cells)) < 2 THEN None
    ELSE out

\* mutant: `normal_p >= 0.05`
recommend_test_Ge(np, vp) ==
    IF IsNone(np) THEN "SKIP"
    ELSE IF Gt(np, ALPHA - 1)
         THEN (IF IsNone(vp) \/ Gt(vp, ALPHA) THEN "ANOVA" ELSE "Welch")
         ELSE "Kruskal"

recommend_test(np, vp) ==
    IF IsNone(np) THEN "SKIP"
    ELSE IF Gt(np, ALPHA)
         THEN (IF IsNone(vp) \/ Gt(vp, ALPHA) THEN "ANOVA" ELSE "Welch")
         ELSE "Kruskal"

\* a p-value, or Raise when the fit or the anova table raises
run_anova(out) == out

run_welch(out) == out

\* np.all(all_vals == all_vals[0]) over the values of the qualifying groups
AllValsEqual(d, cells) ==
    LET rows == UNION {GroupRows(d, cells, k) : k \in KruskalGroups(d, cells)}
    IN  \A i \in rows, j \in rows : cells[i] = cells[j]

\* mutant: no shortcut for identical values
run_kruskal_NoShortcut(d, cells, out) ==
    IF Cardinality(KruskalGroups(d, cells)) < 2 THEN None
    ELSE IF out = Raise THEN Num(P_ONE)
    ELSE out

run_kruskal(d, cells, out) ==
    IF Cardinality(KruskalGroups(d, cells)) < 2 THEN None
    ELSE IF AllValsEqual(d, cells) THEN Num(P_ONE)
    ELSE IF out = Raise THEN Num(P_ONE)
    ELSE out

\* whether run_kruskal reaches scipy's kruskal
KruskalCalled(d, cells) ==
    /\ Cardinality(KruskalGroups(d, cells)) >= 2
    /\ ~AllValsEqual(d, cells)

\* temp[group].nunique() of temp = df[[col, group]].dropna()
PairedLevels(d, cells) ==
    {d.kind[i] : i \in {j \in DOMAIN cells : cells[j] # NA /\ d.kind[j] # NA}}

\* the library routine posthoc_test reaches, "" when none
PosthocRoutine(d, cells, test_type) ==
    IF Cardinality(PairedLevels(d, cells)) < 2 THEN ""
    ELSE IF test_type \in {"ANOVA", "Welch"} THEN "pairwise_tukeyhsd"
    ELSE IF test_type = "Kruskal" THEN "posthoc_dunn"
    ELSE ""

\* str(post) of the returned value, or "raise"
posthoc_test(d, cells, test_type, out) ==
    LET routine == PosthocRoutine(d, cells, test_type)
    IN  IF routine = "" THEN "None"
        ELSE IF out = Raise THEN "raise"
        ELSE routine

\* mutant: `p <= 0.05`
short_conclusion_Le(col, group, pv) ==
    [kind |-> "conclusion", col |-> col, gcol |-> group,
     verdict |-> IF IsNone(pv) THEN "not enough data"
                 ELSE IF Lt(pv, ALPHA + 1) THEN "differs"
                 ELSE "does not differ",
     p |-> pv]

short_conclusion(col, group, pv) ==
    IF IsNone(pv)
    THEN [kind |-> "conclusion", col |-> col, gcol |-> group,
          verdict |-> "not enough data", p |-> pv]
    ELSE IF Lt(pv, ALPHA)
    THEN [kind |-> "conclusion", col |-> col, gcol |-> group,
          verdict |-> "differs", p |-> pv]
    ELSE [kind |-> "conclusion", col |-> col, gcol |-> group,
          verdict |-> "does not differ", p |-> pv]

\* mutant: `p <= 0.05`
Significant_Le(pv) == ~IsNone(pv) /\ Lt(pv, ALPHA + 1)

\* `p is not None and p < 0.05`
Significant(pv) == ~IsNone(pv) /\ Lt(pv, ALPHA)

----------------------------------------------------------------------------
(* The script *)

\* os.listdir(INPUT_DIR): the files of the input directory, in listing order
Listings ==
    { <<>>,
      <<"algoCustomData.json">>,
      <<"farms.json">>,
      <<"algoCustomData.json", "farms.json">>,
      <<"farms.json", "algoCustomData.json">> }

\* mutant: the listing is not filtered
UsableFiles_Unfiltered(listing) == listing

\* [f for f in os.listdir(INPUT_DIR) if f not in SKIP_FILES]
UsableFiles(listing) == SelectSeq(listing, LAMBDA f : f \notin SKIP_FILES)

\* mutant: `n <= MIN_SAMPLE`
Insufficient_Le(n, missing, rows) ==
    \/ n <= MIN_SAMPLE
    \/ missing * MAX_NA_RATIO_DEN > MAX_NA_RATIO_NUM * rows

\* `n < MIN_SAMPLE or na_ratio > MAX_NA_RATIO`, na_ratio being missing / rows
Insufficient(n, missing, rows) ==
    \/ n < MIN_SAMPLE
    \/ missing * MAX_NA_RATIO_DEN > MAX_NA_RATIO_NUM * rows

Call(fn, col) == [fn |-> fn, col |-> col]

\* the column the loop is at
Cols == numeric_cols(df)

Col == Cols[ci]

\* the end of one pass of the loop over GROUP_COLS: the next grouping field,
\* or the next column after the last one
Advance ==
    IF gi < Len(GROUP_COLS)
    THEN /\ gi' = gi + 1
         /\ pc' = "groups"
         /\ ci' = ci
    ELSE /\ gi' = gi
         /\ pc' = "columns"
         /\ ci' = ci + 1

Init ==
    /\ pc = "start"
    /\ data_files = <<>>
    /\ df = EmptyFrame
    /\ ci = 1
    /\ gi = 1
    /\ normal_p = None
    /\ variance_p = None
    /\ test = ""
    /\ p = None
    /\ report_lines = <<>>
    /\ calls = <<>>
    /\ out_dir \in BOOLEAN
    /\ out_file = [exists |-> FALSE, content |-> <<>>]
    /\ writes = 0

\* lines 46-55: list the input directory; no usable file is fatal
ListInputs ==
    /\ pc = "start"
    /\ \E listing \in Listings :
         /\ data_files' = UsableFiles(listing)
         /\ pc' = IF UsableFiles(listing) = <<>> THEN "fatal" ELSE "read"
    /\ UNCHANGED <<df, ci, gi, normal_p, variance_p, test, p, report_lines,
                   calls, out_dir, out_file, writes>>

\* lines 57-65: the file does not parse, or does not make a DataFrame
LoadInvalid ==
    /\ pc = "read"
    /\ pc' = "fatal"
    /\ UNCHANGED <<data_files, df, ci, gi, normal_p, variance_p, test, p,
                   report_lines, calls, out_dir, out_file, writes>>

\* lines 57-63, 73-75: the file parses into a table
Load ==
    /\ pc = "read"
    /\ \E d \in Datasets : df' = d
    /\ pc' = "columns"
    /\ ci' = 1
    /\ report_lines' = <<>>
    /\ UNCHANGED <<data_files, gi, normal_p, variance_p, test, p, calls,
                   out_dir, out_file, writes>>

\* lines 174-175: `if col in SKIP_COLS: continue`
SkipDenylisted ==
    /\ pc = "columns"
    /\ ci <= Len(Cols)
    /\ Col.name \in SKIP_COLS
    /\ ci' = ci + 1
    /\ UNCHANGED <<pc, data_files, df, gi, normal_p, variance_p, test, p,
                   report_lines, calls, out_dir, out_file, writes>>

\* lines 176-182: too few values or too many missing ones
SkipInsufficient ==
    /\ pc = "columns"
    /\ ci <= Len(Cols)
    /\ Col.name \notin SKIP_COLS
    /\ Insufficient(CountPresent(Col.cells), CountMissing(Col.cells),
                    Len(Col.cells))
    /\ report_lines' = Append(report_lines, SkipLine(Col.name))
    /\ ci' = ci + 1
    /\ UNCHANGED <<pc, data_files, df, gi, normal_p, variance_p, test, p,
                   calls, out_dir, out_file, writes>>

\* lines 176-187: the normality test and the two lines that open the block
StartColumn ==
    /\ pc = "columns"
    /\ ci <= Len(Cols)
    /\ Col.name \notin SKIP_COLS
    /\ ~Insufficient(CountPresent(Col.cells), CountMissing(Col.cells),
                     Len(Col.cells))
    /\ \E out \in DiagnosticOutcomes :
         LET n  == CountPresent(Col.cells)
             np == test_normality(n, out)
         IN  /\ normal_p' = np
             /\ calls' = IF n < MIN_SAMPLE THEN calls
                         ELSE Append(calls, Call("shapiro", Col.name))
             /\ report_lines' =
                  report_lines \o
                  << HeaderLine(Col.name),
                     StatsLine(Col.name, n, CountMissing(Col.cells),
                               Len(Col.cells), np) >>
    /\ gi' = 1
    /\ pc' = "groups"
    /\ UNCHANGED <<data_files, df, ci, variance_p, test, p, out_dir,
                   out_file, writes>>

\* lines 190-191: the variance test and the choice of the main test
SelectTest ==
    /\ pc = "groups"
    /\ \E out \in DiagnosticOutcomes :
         LET vp == test_variances(df, Col.cells, out)
         IN  /\ calls' = IF Cardinality(VarianceGroups(df, Col.cells)) < 2
                         THEN calls
                         ELSE Append(calls, Call("levene", Col.name))
             /\ IF vp = Raise
                THEN /\ pc' = "crashed"
                     /\ UNCHANGED <<variance_p, test>>
                ELSE /\ variance_p' = vp
                     /\ test' = recommend_test(normal_p, vp)
                     /\ pc' = "run"
    /\ UNCHANGED <<data_files, df, ci, gi, normal_p, p, report_lines,
                   out_dir, out_file, writes>>

\* the result of the main test, and the library call it makes ("" when none)
MainTest(t, d, cells, out) ==
    IF t = "ANOVA" THEN [p |-> run_anova(out), fn |-> "anova_lm"]
    ELSE IF t = "Welch" THEN [p |-> run_welch(out), fn |-> "anova_lm_hc3"]
    ELSE IF t = "Kruskal"
    THEN [p |-> run_kruskal(d, cells, out),
          fn |-> IF KruskalCalled(d, cells) THEN "kruskal" ELSE ""]
    ELSE [p |-> None, fn |-> ""]

\* lines 193-208: the main test, its two report lines, the post-hoc trigger
RunTest ==
    /\ pc = "run"
    /\ \E out \in MainOutcomes :
         LET r == MainTest(test, df, Col.cells, out)
         IN  /\ calls' = IF r.fn = "" THEN calls
                         ELSE Append(calls, Call(r.fn, Col.name))
             /\ IF r.p = Raise
                THEN /\ pc' = "crashed"
                     /\ UNCHANGED <<p, report_lines, ci, gi>>
                ELSE /\ p' = r.p
                     /\ report_lines' =
                          report_lines \o
                          << TestLine(Col.name, GROUP_COLS[gi], test,
                                      variance_p, r.p),
                             short_conclusion(Col.name, GROUP_COLS[gi], r.p) >>
                     /\ IF Significant(r.p)
                        THEN /\ pc' = "posthoc"
                             /\ UNCHANGED <<ci, gi>>
                        ELSE Advance
    /\ UNCHANGED <<data_files, df, normal_p, variance_p, test, out_dir,
                   out_file, writes>>

\* lines 209-210: the post-hoc test and its block
PostHoc ==
    /\ pc = "posthoc"
    /\ \E out \in PosthocOutcomes :
         LET routine == PosthocRoutine(df, Col.cells, test)
             post    == posthoc_test(df, Col.cells, test, out)
         IN  /\ calls' = IF routine = "" THEN calls
                         ELSE Append(calls, Call(routine, Col.name))
             /\ IF post = "raise"
                THEN /\ pc' = "crashed"
                     /\ UNCHANGED <<report_lines, ci, gi>>
                ELSE /\ report_lines' = Append(report_lines, PosthocLine(post))
                     /\ Advance
    /\ UNCHANGED <<data_files, df, normal_p, variance_p, test, p, out_dir,
                   out_file, writes>>

\* mutant: the file is written before the column loop has run
WriteReport_BeforeLoop ==
    /\ pc = "columns"
    /\ ci = 1
    /\ out_dir' = TRUE
    /\ out_file' = [exists |-> TRUE, content |-> Join(report_lines)]
    /\ writes' = writes + 1
    /\ pc' = "done"
    /\ UNCHANGED <<data_files, df, ci, gi, normal_p, variance_p, test, p,
                   report_lines, calls>>

\* lines 213-219: after the last column, make the directory, write the file
WriteReport ==
    /\ pc = "columns"
    /\ ci > Len(Cols)
    /\ out_dir' = TRUE
    /\ out_file' = [exists |-> TRUE, content |-> Join(report_lines)]
    /\ writes' = writes + 1
    /\ pc' = "done"
    /\ UNCHANGED <<data_files, df, ci, gi, normal_p, variance_p, test, p,
                   report_lines, calls>>

Next ==
    \/ ListInputs
    \/ LoadInvalid
    \/ Load
    \/ SkipDenylisted
    \/ SkipInsufficient
    \/ StartColumn
    \/ SelectTest
    \/ RunTest
    \/ PostHoc
    \/ WriteReport

Spec == Init /\ [][Next]_vars

----------------------------------------------------------------------------
(* Vocabulary of the properties *)

\* the table has been loaded and the column loop entered
Loaded == pc \notin {"start", "read", "fatal"}

\* the loop has reached the i-th numeric column
Reached(i) ==
    \/ i < ci
    \/ i = ci /\ pc \in {"groups", "run", "posthoc", "crashed"}

\* the loop has left the i-th numeric column
Passed(i) == i < ci

\* positions of the report lines of the given kinds that name column `name`
LinesOf(name, kinds) ==
    {i \in DOMAIN report_lines :
        /\ report_lines[i].kind \in kinds
        /\ report_lines[i].col = name}

\* positions of the library calls made for column `name`
CallsOf(name) == {i \in DOMAIN calls : calls[i].col = name}

\* number of groups with at least 4 non-missing values of the column
NumQualifying(cells) ==
    Cardinality({k \in {"A", "B"} :
        Cardinality({i \in DOMAIN cells : df.kind[i] = k /\ cells[i] # "NA"}) >= 4})

\* the cells of the column called `name`
CellsOf(name) == (CHOOSE c \in Range(df.cols) : c.name = name).cells

\* every grouped row that holds a value holds the same value
ConstantInGroups(cells) ==
    \A i \in DOMAIN cells, j \in DOMAIN cells :
        (df.kind[i] # "NA" /\ df.kind[j] # "NA" /\ cells[i] # "NA" /\ cells[j] # "NA")
            => cells[i] = cells[j]

----------------------------------------------------------------------------
(* C1: a numeric column outside the denylist with fewer than 4 values, or  *)
(* with more than half of its rows missing, gets one skip line and no      *)
(* normality, variance, main or post-hoc test and no analysis line; a      *)
(* column with at least 4 values and at most half missing (n = 4 and ratio *)
(* 0.5 included) is never skipped: once the loop reaches it, its block is  *)
(* opened and its normality test run.                                      *)
C1_SkipGate ==
    Loaded =>
      \A i \in DOMAIN Cols :
        LET c       == Cols[i]
            n       == CountPresent(c.cells)
            missing == Len(c.cells) - n
            gated   == n < 4 \/ 2 * missing > Len(c.cells)
        IN  c.name \notin {"Farm ID", "Plot", "Time of sampling", "Soil type"} =>
              /\ gated =>
                   /\ CallsOf(c.name) = {}
                   /\ LinesOf(c.name, {"header", "stats", "test", "conclusion"}) = {}
                   /\ Passed(i) => Cardinality(LinesOf(c.name, {"skip"})) = 1
              /\ ~gated =>
                   /\ LinesOf(c.name, {"skip"}) = {}
                   /\ Reached(i) =>
                        /\ Cardinality(LinesOf(c.name, {"header"})) = 1
                        /\ \E k \in CallsOf(c.name) : calls[k].fn = "shapiro"

\* a column with at least 4 values but more than half missing was skipped,
\* and the report written
C1_Witness ==
    /\ pc = "done"
    /\ \E i \in DOMAIN Cols :
         /\ CountPresent(Cols[i].cells) >= 4
         /\ 2 * CountMissing(Cols[i].cells) > Len(Cols[i].cells)
         /\ LinesOf(Cols[i].name, {"skip"}) # {}

\* a column at both boundaries (n = 4, ratio = 0.5) was analyzed
C1_BoundaryWitness ==
    /\ pc = "done"
    /\ \E i \in DOMAIN Cols :
         /\ CountPresent(Cols[i].cells) = 4
         /\ 2 * CountMissing(Cols[i].cells) = Len(Cols[i].cells)
         /\ LinesOf(Cols[i].name, {"test"}) # {}

----------------------------------------------------------------------------
(* C2: whenever a test has been selected it is the one the decision table  *)
(* gives for (normality p, variance p): undefined normality p -> SKIP;     *)
(* normality p > 0.05 and variance p undefined or > 0.05 -> ANOVA;         *)
(* normality p > 0.05 and variance p <= 0.05 -> Welch; normality p <= 0.05 *)
(* -> Kruskal; and it is always one of the four tags.                      *)
C2_DecisionTable ==
    pc = "run" =>
      LET npNum == normal_p.tag = "num"
          vpNum == variance_p.tag = "num"
      IN  /\ test \in {"SKIP", "ANOVA", "Welch", "Kruskal"}
          /\ normal_p.tag = "none" => test = "SKIP"
          /\ (npNum /\ normal_p.v > 5 /\
                (variance_p.tag = "none" \/ (vpNum /\ variance_p.v > 5)))
               => test = "ANOVA"
          /\ (npNum /\ normal_p.v > 5 /\ vpNum /\ variance_p.v <= 5)
               => test = "Welch"
          /\ (npNum /\ normal_p.v <= 5) => test = "Kruskal"

\* normality p exactly 0.05 with a variance p above it: Kruskal was selected
C2_Witness ==
    /\ pc = "run"
    /\ normal_p = [tag |-> "num", v |-> 5]
    /\ variance_p = [tag |-> "num", v |-> 100]
    /\ test = "Kruskal"

----------------------------------------------------------------------------
(* C3: the post-hoc step is entered, a post-hoc routine called and a       *)
(* post-hoc block appended only after a main test whose p-value is defined *)
(* and < 0.05; a conclusion whose p is undefined or >= 0.05 (the fallback  *)
(* 1.0 included) is never followed by a post-hoc block.                    *)
C3_PosthocOnlyWhenSignificant ==
    /\ pc = "posthoc" => (p.tag = "num" /\ p.v < 5)
    /\ \A i \in DOMAIN report_lines :
         /\ report_lines[i].kind = "posthoc" =>
              /\ i > 1
              /\ report_lines[i - 1].kind = "conclusion"
              /\ report_lines[i - 1].p.tag = "num"
              /\ report_lines[i - 1].p.v < 5
         /\ (/\ report_lines[i].kind = "conclusion"
             /\ \/ report_lines[i].p.tag = "none"
                \/ (report_lines[i].p.tag = "num" /\ report_lines[i].p.v >= 5)
             /\ i < Len(report_lines))
              => report_lines[i + 1].kind # "posthoc"
    /\ \A k \in DOMAIN calls :
         calls[k].fn \in {"pairwise_tukeyhsd", "posthoc_dunn"} =>
           \E i \in LinesOf(calls[k].col, {"test"}) :
             report_lines[i].p.tag = "num" /\ report_lines[i].p.v < 5

\* a post-hoc routine ran and its block follows a conclusion with p < 0.05
C3_Witness ==
    /\ \E k \in DOMAIN calls : calls[k].fn = "posthoc_dunn"
    /\ \E i \in DOMAIN report_lines :
         /\ report_lines[i].kind = "posthoc"
         /\ report_lines[i - 1].p = [tag |-> "num", v |-> 4]

----------------------------------------------------------------------------
(* C4 as claimed: Kruskal on a column whose groups all hold one identical   *)
(* constant value gives p = 1.0, never an error and never an undefined     *)
(* result.                                                                 *)
C4_Original ==
    /\ \A i \in DOMAIN report_lines :
         (/\ report_lines[i].kind = "test"
          /\ report_lines[i].test = "Kruskal"
          /\ ConstantInGroups(CellsOf(report_lines[i].col)))
           => report_lines[i].p = [tag |-> "num", v |-> 100]
    /\ (pc = "crashed" /\ calls # <<>>) => calls[Len(calls)].fn # "kruskal"

(* C4 as amended: on such a column Kruskal gives p = 1.0, without calling  *)
(* the rank-sum routine, when at least two groups have 4 or more values,   *)
(* and an undefined result when fewer than two groups do; it never ends in *)
(* an error.                                                               *)
C4_ConstantKruskal ==
    /\ \A i \in DOMAIN report_lines :
         (/\ report_lines[i].kind = "test"
          /\ report_lines[i].test = "Kruskal"
          /\ ConstantInGroups(CellsOf(report_lines[i].col)))
           => /\ NumQualifying(CellsOf(report_lines[i].col)) >= 2
                   => report_lines[i].p = [tag |-> "num", v |-> 100]
              /\ NumQualifying(CellsOf(report_lines[i].col)) < 2
                   => report_lines[i].p.tag = "none"
              /\ \A k \in CallsOf(report_lines[i].col) : calls[k].fn # "kruskal"
    /\ (pc = "crashed" /\ calls # <<>>) => calls[Len(calls)].fn # "kruskal"

\* Kruskal ran on a constant column with two qualifying groups and gave 1.0
C4_Witness ==
    \E i \in DOMAIN report_lines :
      /\ report_lines[i].kind = "test"
      /\ report_lines[i].test = "Kruskal"
      /\ ConstantInGroups(CellsOf(report_lines[i].col))
      /\ NumQualifying(CellsOf(report_lines[i].col)) >= 2
      /\ report_lines[i].p = [tag |-> "num", v |-> 100]

----------------------------------------------------------------------------
(* C5 as claimed: once the input is loaded no failure of a statistical     *)
(* routine aborts the run: the script never dies inside the column loop.   *)
C5_LocalRecovery == pc # "crashed"

----------------------------------------------------------------------------
(* C6: with no usable input file, or a file that does not parse, the run   *)
(* ends in a fatal error with no column analyzed, no report line, and the  *)
(* output directory and file untouched, and nothing happens after it; the  *)
(* output file is written at most once, and only by the step taken after   *)
(* the last column.                                                        *)
C6_State ==
    /\ pc \notin {"start", "fatal"} =>
         (data_files # <<>> /\ data_files[1] \notin {"algoCustomData.json"})
    /\ (pc # "start" /\ data_files = <<>>) => pc = "fatal"
    /\ pc = "fatal" =>
         /\ calls = <<>>
         /\ report_lines = <<>>
         /\ df.cols = <<>>
         /\ ~out_file.exists
         /\ writes = 0
    /\ writes <= 1
    /\ out_file.exists <=> writes = 1
    /\ writes = 1 => (pc = "done" /\ ci > Len(Cols))

C6_Step ==
    /\ pc = "fatal" => UNCHANGED vars
    /\ pc' = "fatal" => UNCHANGED <<out_dir, out_file, writes>>
    /\ (writes' # writes \/ out_file' # out_file \/ out_dir' # out_dir) =>
         (pc = "columns" /\ ci > Len(Cols) /\ pc' = "done")
    /\ (pc = "read" /\ pc' # "fatal") => pc' = "columns"

C6_FatalBeforeOutput == [](C6_State) /\ [][C6_Step]_vars

\* a file was selected, did not parse, and the run ended in the fatal error
C6_Witness ==
    /\ pc = "fatal"
    /\ data_files = <<"farms.json">>

----------------------------------------------------------------------------
(* C7: the report holds one block per numeric column outside the denylist, *)
(* in the table's column order; a block is one skip line, or a header, a   *)
(* sample-size line and, for the grouping field, a test line, a conclusion *)
(* line and at most one post-hoc line; every line of a block names the     *)
(* block's column; columns of the denylist and non-numeric columns leave   *)
(* no line; the written file is those lines joined by newlines; and the    *)
(* list of lines only grows.                                               *)

\* the columns the report is about, in the table's order
C7_Reported ==
    SelectSeq(df.cols, LAMBDA c :
        /\ IsNumeric(c.cells)
        /\ c.name \notin {"Farm ID", "Plot", "Time of sampling", "Soil type"})

\* the lines that open a block
C7_Heads == SelectSeq(report_lines, LAMBDA l : l.kind \in {"skip", "header"})

\* the position of the line that opens the block line i is in
C7_HeadOf(i) ==
    CHOOSE h \in 1..i :
      /\ report_lines[h].kind \in {"skip", "header"}
      /\ \A k \in (h + 1)..i : report_lines[k].kind \notin {"skip", "header"}

C7_Shape ==
    /\ Len(C7_Heads) <= Len(C7_Reported)
    /\ \A j \in DOMAIN C7_Heads : C7_Heads[j].col = C7_Reported[j].name
    /\ pc = "done" => Len(C7_Heads) = Len(C7_Reported)
    /\ report_lines # <<>> => report_lines[1].kind \in {"skip", "header"}
    /\ \A i \in DOMAIN report_lines :
         LET l    == report_lines[i]
             last == i = Len(report_lines)
             next == report_lines[i + 1]
         IN  /\ l.kind = "skip" => (last \/ next.kind \in {"skip", "header"})
             /\ l.kind = "header" =>
                  (~last /\ next.kind = "stats" /\ next.col = l.col)
             /\ l.kind = "stats" =>
                  /\ last \/ (next.kind = "test" /\ next.col = l.col)
                  /\ pc = "done" => ~last
             /\ l.kind = "test" =>
                  /\ ~last
                  /\ next.kind = "conclusion"
                  /\ next.col = l.col
                  /\ next.gcol = l.gcol
                  /\ next.p = l.p
                  /\ l.gcol = "Kind of farm"
                  /\ Cardinality(LinesOf(l.col, {"test"})) = 1
             /\ l.kind = "conclusion" =>
                  (last \/ next.kind \in {"posthoc", "skip", "header"})
             /\ l.kind = "posthoc" =>
                  (last \/ next.kind \in {"skip", "header"})
             /\ l.kind \in {"stats", "test", "conclusion"} =>
                  /\ report_lines[C7_HeadOf(i)].kind = "header"
                  /\ report_lines[C7_HeadOf(i)].col = l.col
    /\ out_file.exists =>
         /\ Len(out_file.content) =
              (IF report_lines = <<>> THEN 0 ELSE 2 * Len(report_lines) - 1)
         /\ \A k \in DOMAIN out_file.content :
              IF k % 2 = 1
              THEN out_file.content[k] = report_lines[(k + 1) \div 2]
              ELSE out_file.content[k].kind = "newline"

C7_Grows ==
    /\ Len(report_lines') >= Len(report_lines)
    /\ SubSeq(report_lines', 1, Len(report_lines)) = report_lines

C7_ReportStructure == [](C7_Shape) /\ [][C7_Grows]_vars

\* a written report of two blocks: a skipped column, then an analyzed one
\* with a post-hoc line
C7_Witness ==
    /\ pc = "done"
    /\ Len(C7_Heads) = 2
    /\ C7_Heads[1].kind = "skip"
    /\ C7_Heads[2].kind = "header"
    /\ report_lines[Len(report_lines)].kind = "posthoc"
    /\ Len(out_file.content) = 2 * Len(report_lines) - 1

----------------------------------------------------------------------------
(* C8: after a run that reaches its end with at least one qualifying       *)
(* column (numeric, outside the denylist, at least 4 values, at most half  *)
(* missing) the report file exists and is not empty.                       *)
C8_ReportNonEmpty ==
    (/\ pc = "done"
     /\ \E i \in DOMAIN df.cols :
          LET c == df.cols[i]
          IN  /\ IsNumeric(c.cells)
              /\ c.name \notin {"Farm ID", "Plot", "Time of sampling", "Soil type"}
              /\ CountPresent(c.cells) >= 4
              /\ 2 * CountMissing(c.cells) <= Len(c.cells))
      => (out_file.exists /\ Len(out_file.content) > 0)

\* a run with a qualifying column reached its end and wrote the file
C8_Witness ==
    /\ pc = "done"
    /\ \E i \in DOMAIN report_lines : report_lines[i].kind = "header"
    /\ out_file.exists
    /\ Len(out_file.content) > 0

----------------------------------------------------------------------------
----------------------------------------------------------------------------
(* C10: Welch is selected only when at least two groups hold 4 or more     *)
(* values of the column, and when Kruskal is selected its result is        *)
(* undefined exactly when the variance p-value is undefined; ANOVA, in     *)
(* contrast, is selected and run with fewer than two such groups.          *)
C10_SharedGroupFilter ==
    /\ (pc = "run" /\ test = "Welch") => NumQualifying(Col.cells) >= 2
    /\ \A i \in DOMAIN report_lines :
         LET l == report_lines[i]
         IN  l.kind = "test" =>
               /\ l.test = "Welch" => NumQualifying(CellsOf(l.col)) >= 2
               /\ l.test = "Kruskal" =>
                    (l.p.tag = "none" <=> l.variance_p.tag = "none")

\* ANOVA ran and gave a p-value on a column with fewer than two qualifying
\* groups
C10_Witness ==
    \E i \in DOMAIN report_lines :
      /\ report_lines[i].kind = "test"
      /\ report_lines[i].test = "ANOVA"
      /\ report_lines[i].p.tag = "num"
      /\ NumQualifying(CellsOf(report_lines[i].col)) < 2
      /\ \E k \in CallsOf(report_lines[i].col) : calls[k].fn = "anova_lm"

====
